---- MODULE Spec2Model ----
(***************************************************************************)
(* State-machine model of the badge assertion views of apps/issuer/api.py  *)
(* and the backpack serializers of apps/backpack/serializers_v2.py.        *)
(*                                                                         *)
(* The database is the function `assertions` (one BadgeInstance row per    *)
(* entity id), the set `staff` (IssuerStaff rows) and the set `tokens`     *)
(* (access tokens).  Every HTTP handler is one action; the request it was  *)
(* given and the response it produced are kept in `request` / `response`.  *)
(***************************************************************************)
EXTENDS Integers, Sequences, FiniteSets, TLC

VARIABLES
    assertions,   \* entity id -> BadgeInstance row
    staff,        \* IssuerStaff rows: [issuer, user, role]
    tokens,       \* access tokens: [user, application, scope, token, expires]
    now,          \* the server clock (timezone.now())
    request,      \* the request of the handler that ran last
    response,     \* its response
    feed,         \* the AssertionsChangedSince request in progress
    client,       \* the polling client's cursor and what it has seen
    collections   \* entity id -> BackpackCollection row

vars == <<assertions, staff, tokens, now, request, response, feed, client,
         collections>>

(***************************************************************************)
(* Bounds of the model.                                                    *)
(***************************************************************************)
MaxBatch == 2       \* longest request list of a batch revoke
MaxClock == 3       \* last value of the server clock
ClockPerSecond == 2 \* clock values in one second of an ISO-8601 string

(***************************************************************************)
(* Values.                                                                 *)
(***************************************************************************)
None == "<None>"                     \* Python None / a key that is absent
AssertionIds == {"a1", "a2", "a3"}   \* entity ids that may have a row
UnknownId == "zz"                    \* an entity id that never has a row
Users == {"u1", "u2"}
Issuers == {"i1", "i2"}
Recipients == {"r1", "r2"}

ACCEPTANCE_ACCEPTED == "Accepted"
ACCEPTANCE_CHOICES == {"Unaccepted", "Accepted", "Rejected"}

HTTP_200_OK == 200
HTTP_201_CREATED == 201
HTTP_400_BAD_REQUEST == 400
HTTP_403_FORBIDDEN == 403
HTTP_404_NOT_FOUND == 404

\* A datetime column that is NULL.
NullTime == 0 - 1

\* Python truthiness of a string-or-None value.
Truthy(v) == v /= None /\ v /= ""

\* A row that does not exist (no BadgeInstance with that entity id).
NoRow == [exists |-> FALSE, revoked |-> FALSE, revocation_reason |-> None,
          acceptance |-> None, user |-> None, issuer |-> None,
          recipient |-> None, expires_at |-> NullTime, updated_at |-> 0]

Row(issuer, user, recipient, acceptance, revoked, reason, expires) ==
    [exists |-> TRUE, revoked |-> revoked, revocation_reason |-> reason,
     acceptance |-> acceptance, user |-> user, issuer |-> issuer,
     recipient |-> recipient, expires_at |-> expires, updated_at |-> 0]

(***************************************************************************)
(* Model layer and entity framework (not part of the two source files).    *)
(***************************************************************************)

\* Model.save(): persists the row and stamps updated_at with the clock.
save(inst, t) == [inst EXCEPT !.updated_at = t]

\* revoke() without the test of the reason.
revoke_any_reason(inst, revocation_reason, t) ==
    IF inst.revoked
    THEN [raised |-> "Assertion is already revoked", inst |-> inst]
    ELSE [raised |-> None,
          inst |-> [inst EXCEPT !.revoked = TRUE,
                                !.revocation_reason = revocation_reason,
                                !.updated_at = t]]

\* BadgeInstance.revoke(revocation_reason): one-way, requires a reason.
\* Returns the exception message in `raised` (None when it did not raise).
revoke(inst, revocation_reason, t) ==
    IF inst.revoked
    THEN [raised |-> "Assertion is already revoked", inst |-> inst]
    ELSE IF ~Truthy(revocation_reason)
    THEN [raised |-> "revocation_reason is required", inst |-> inst]
    ELSE [raised |-> None,
          inst |-> save([inst EXCEPT !.revoked = TRUE,
                                     !.revocation_reason = revocation_reason], t)]

\* get_object(request, entity_id=...): the row, or Http404 (None).
get_object(db, entity_id) ==
    IF entity_id \in DOMAIN db /\ db[entity_id].exists THEN entity_id ELSE None

\* has_object_permissions(request, assertion): the requesting user is staff
\* of the assertion's issuer.
has_object_permissions(st, user, inst) ==
    \E s \in st : s.user = user /\ s.issuer = inst.issuer

(***************************************************************************)
(* BadgeInstanceDetail.delete                                              *)
(***************************************************************************)
\* delete() with the reason tested before the permission.
delete_reason_first(db, st, user, entity_id, revocation_reason, t) ==
    LET assertion == get_object(db, entity_id) IN
    IF assertion = None
    THEN [status |-> HTTP_404_NOT_FOUND, db |-> db]
    ELSE IF ~Truthy(revocation_reason)
    THEN [status |-> HTTP_400_BAD_REQUEST, db |-> db]
    ELSE IF ~has_object_permissions(st, user, db[assertion])
    THEN [status |-> HTTP_404_NOT_FOUND, db |-> db]
    ELSE LET r == revoke(db[assertion], revocation_reason, t) IN
         IF r.raised /= None
         THEN [status |-> HTTP_400_BAD_REQUEST, db |-> db]
         ELSE [status |-> HTTP_200_OK,
               db |-> [db EXCEPT ![assertion] = r.inst]]

\* The handler as a function of the database and the request:
\* [status, db].
delete(db, st, user, entity_id, revocation_reason, t) ==
    LET assertion == get_object(db, entity_id) IN
    IF assertion = None
    THEN [status |-> HTTP_404_NOT_FOUND, db |-> db]
    ELSE IF ~has_object_permissions(st, user, db[assertion])
    THEN [status |-> HTTP_404_NOT_FOUND, db |-> db]
    ELSE IF ~Truthy(revocation_reason)
    THEN [status |-> HTTP_400_BAD_REQUEST, db |-> db]
    ELSE LET r == revoke(db[assertion], revocation_reason, t) IN
         IF r.raised /= None
         THEN [status |-> HTTP_400_BAD_REQUEST, db |-> db]
         ELSE [status |-> HTTP_200_OK,
               db |-> [db EXCEPT ![assertion] = r.inst]]

Reasons == {None, "", "policy"}

\* No request is being answered: the previous response has been sent.
Idle == response.op = "none"

BadgeInstanceDetail_delete ==
    /\ Idle
    /\ \E user \in Users, entity_id \in AssertionIds \cup {UnknownId},
       revocation_reason \in Reasons :
        LET out == delete(assertions, staff, user, entity_id, revocation_reason, now) IN
        /\ assertions' = out.db
        /\ request' = [op |-> "delete", user |-> user, entity_id |-> entity_id,
                       revocation_reason |-> revocation_reason]
        /\ response' = [op |-> "delete", status |-> out.status,
                        data |-> IF out.status = HTTP_200_OK
                                 THEN out.db[entity_id] ELSE None]
        /\ UNCHANGED <<staff, tokens, now, feed, client, collections>>

(***************************************************************************)
(* BatchAssertionsRevoke                                                   *)
(***************************************************************************)
\* One result dict; a key that was never set is None.
RevokeResponse(revoked, entityId, revocationReason, reason) ==
    [revoked |-> revoked, entityId |-> entityId,
     revocationReason |-> revocationReason, reason |-> reason]

\* _process_revoke(request, revocation): [db, response].
\* The permission test builds a "permission denied" dict and drops it (there
\* is no return), so control always reaches assertion.revoke().
_process_revoke(db, st, user, revocation, t) ==
    LET entity_id == revocation.entityId
        revocation_reason == revocation.revocationReason
    IN
    IF entity_id = None
    THEN [db |-> db,
          response |-> RevokeResponse(FALSE, None, None, "entityId is required")]
    ELSE IF revocation_reason = None
    THEN [db |-> db,
          response |-> RevokeResponse(FALSE, entity_id, None,
                                      "revocationReason is required")]
    ELSE LET assertion == get_object(db, entity_id) IN
         IF assertion = None
         THEN [db |-> db,
               response |-> RevokeResponse(FALSE, entity_id, revocation_reason,
                                "permission denied or object not found")]
         ELSE LET dropped == IF ~has_object_permissions(st, user, db[assertion])
                             THEN RevokeResponse(FALSE, entity_id, revocation_reason,
                                      "permission denied or object not found")
                             ELSE None
                  r == revoke(db[assertion], revocation_reason, t)
              IN
              IF r.raised /= None
              THEN [db |-> db,
                    response |-> RevokeResponse(FALSE, entity_id,
                                                revocation_reason, r.raised)]
              ELSE [db |-> [db EXCEPT ![assertion] = r.inst],
                    response |-> RevokeResponse(TRUE, entity_id,
                                                revocation_reason, None)]

\* post() that stops at the first entry that fails.
RECURSIVE post_revoke_stop_at_failure(_, _, _, _, _)
post_revoke_stop_at_failure(db, st, user, data, t) ==
    IF data = <<>>
    THEN [status |-> HTTP_200_OK, db |-> db, result |-> <<>>]
    ELSE LET first == _process_revoke(db, st, user, Head(data), t) IN
         IF ~first.response.revoked
         THEN [status |-> HTTP_200_OK, db |-> db, result |-> <<first.response>>]
         ELSE LET rest == post_revoke_stop_at_failure(first.db, st, user,
                                                      Tail(data), t)
              IN [status |-> HTTP_200_OK, db |-> rest.db,
                  result |-> <<first.response>> \o rest.result]

\* post(): the list comprehension over request.data, left to right.
RECURSIVE post_revoke(_, _, _, _, _)
post_revoke(db, st, user, data, t) ==
    IF data = <<>>
    THEN [status |-> HTTP_200_OK, db |-> db, result |-> <<>>]
    ELSE LET first == _process_revoke(db, st, user, Head(data), t)
             rest == post_revoke(first.db, st, user, Tail(data), t)
         IN [status |-> HTTP_200_OK, db |-> rest.db,
             result |-> <<first.response>> \o rest.result]

Revocations == [entityId : {None, "a1", "a2", UnknownId},
                revocationReason : Reasons]

RevocationLists == UNION {[1..n -> Revocations] : n \in 0..MaxBatch}

BatchAssertionsRevoke_post ==
    /\ Idle
    /\ \E user \in Users, data \in RevocationLists :
        LET out == post_revoke(assertions, staff, user, data, now) IN
        /\ assertions' = out.db
        /\ request' = [op |-> "batch_revoke", user |-> user, data |-> data]
        /\ response' = [op |-> "batch_revoke", status |-> out.status,
                        result |-> out.result]
        /\ UNCHANGED <<staff, tokens, now, feed, client, collections>>

(***************************************************************************)
(* BackpackAssertionAcceptanceSerializerV2                                 *)
(***************************************************************************)
\* update() without instance.save(): the stored row stays as it was.
update_without_save(instance, validated_data, t) ==
    LET owner == instance.user
    IN [inst |-> instance,
        published |-> IF owner /= None THEN <<owner>> ELSE <<>>]

\* update(instance, validated_data): [inst, published], where inst is the
\* row as stored and published is the sequence of users whose publish() was
\* called.
update(instance, validated_data, t) ==
    LET accepted == save([instance EXCEPT !.acceptance = "Accepted"], t)
        owner == accepted.user
    IN [inst |-> accepted,
        published |-> IF owner /= None THEN <<owner>> ELSE <<>>]

\* The acceptance field is a ChoiceField whose only choice is "Accepted".
acceptance_is_valid(data) == data.acceptance \in {ACCEPTANCE_ACCEPTED}

BackpackAssertionAcceptance_update ==
    /\ Idle
    /\ \E entity_id \in AssertionIds, acceptance \in ACCEPTANCE_CHOICES :
        LET data == [acceptance |-> acceptance] IN
        /\ assertions[entity_id].exists
        /\ request' = [op |-> "accept", entity_id |-> entity_id, data |-> data]
        /\ IF acceptance_is_valid(data)
           THEN LET out == update(assertions[entity_id], data, now) IN
                /\ assertions' = [assertions EXCEPT ![entity_id] = out.inst]
                /\ response' = [op |-> "accept", status |-> HTTP_200_OK,
                                published |-> out.published]
           ELSE /\ assertions' = assertions
                /\ response' = [op |-> "accept", status |-> HTTP_400_BAD_REQUEST,
                                published |-> <<>>]
        /\ UNCHANGED <<staff, tokens, now, feed, client, collections>>

(***************************************************************************)
(* BackpackImportSerializerV2                                              *)
(***************************************************************************)
ImportFields == {"url", "image", "assertion"}

\* A field value: absent (None), present but empty ("" or {}), or a payload
\* that names the badge it refers to.
Empty == ""
ImportRefs == {"a1", "a3", "malformed"}
ImportValues == {None, Empty} \cup ImportRefs

\* Python truthiness of a field value: None and empty values are falsy.
FieldSet(v) == v /= None /\ v /= Empty

\* sum(1 if v else 0 for v in attrs.values())
RECURSIVE count_set(_, _)
count_set(attrs, fields) ==
    IF fields = {} THEN 0
    ELSE LET f == CHOOSE x \in fields : TRUE IN
         (IF FieldSet(attrs[f]) THEN 1 ELSE 0) + count_set(attrs, fields \ {f})

\* validate() that only rejects more than one field.
validate_at_most_one(attrs) ==
    IF count_set(attrs, DOMAIN attrs) > 1
    THEN [raised |-> "Must provide only one of 'url', 'image' or 'assertion'.",
          attrs |-> None]
    ELSE [raised |-> None, attrs |-> attrs]

\* validate(attrs): [raised, attrs]; raised is the error message or None.
validate(attrs) ==
    IF count_set(attrs, DOMAIN attrs) /= 1
    THEN [raised |-> "Must provide only one of 'url', 'image' or 'assertion'.",
          attrs |-> None]
    ELSE [raised |-> None, attrs |-> attrs]

\* BadgeCheckHelper.get_or_create_assertion(**validated_data):
\* [raised, entity_id, created, db].  The payload that is set names the badge;
\* an existing row is returned as it is, a missing row is created for the
\* importing user with the default acceptance, a malformed payload raises
\* DjangoValidationError.
get_or_create_assertion(db, user, validated_data, t) ==
    LET given == {validated_data[f] : f \in DOMAIN validated_data}
                    \ {None, Empty}
        ref == IF given = {} THEN None ELSE CHOOSE v \in given : TRUE
    IN
    IF ref \notin AssertionIds
    THEN [raised |-> "invalid badge", entity_id |-> None, created |-> FALSE,
          db |-> db]
    ELSE IF db[ref].exists
    THEN [raised |-> None, entity_id |-> ref, created |-> FALSE, db |-> db]
    ELSE [raised |-> None, entity_id |-> ref, created |-> TRUE,
          db |-> [db EXCEPT ![ref] =
                    save(Row("i1", user, "r1", ACCEPTANCE_ACCEPTED, FALSE,
                             None, NullTime), t)]]

\* create() that leaves an existing instance as it found it.
create_without_accept(db, user, validated_data, t) ==
    LET data == [f \in (DOMAIN validated_data \ {"image"}) \cup {"imagefile"} |->
                    IF f = "imagefile"
                    THEN IF "image" \in DOMAIN validated_data
                         THEN validated_data["image"] ELSE None
                    ELSE validated_data[f]]
        got == get_or_create_assertion(db, user, data, t)
    IN
    IF got.raised /= None
    THEN [status |-> HTTP_400_BAD_REQUEST, error |-> got.raised,
          entity_id |-> None, db |-> db]
    ELSE IF ~got.created
    THEN LET instance == got.db[got.entity_id]
         IN [status |-> HTTP_400_BAD_REQUEST, error |-> "DUPLICATE_BADGE",
             entity_id |-> got.entity_id,
             db |-> [got.db EXCEPT ![got.entity_id] = instance]]
    ELSE [status |-> 201, error |-> None, entity_id |-> got.entity_id,
          db |-> got.db]

\* create() that stores a fresh row over an existing instance.
create_replaces_row(db, user, validated_data, t) ==
    LET data == [f \in (DOMAIN validated_data \ {"image"}) \cup {"imagefile"} |->
                    IF f = "imagefile"
                    THEN IF "image" \in DOMAIN validated_data
                         THEN validated_data["image"] ELSE None
                    ELSE validated_data[f]]
        got == get_or_create_assertion(db, user, data, t)
    IN
    IF got.raised /= None
    THEN [status |-> HTTP_400_BAD_REQUEST, error |-> got.raised,
          entity_id |-> None, db |-> db]
    ELSE IF ~got.created
    THEN LET instance == save(Row("i1", user, "r1", ACCEPTANCE_ACCEPTED,
                                   FALSE, None, NullTime), t)
         IN [status |-> HTTP_400_BAD_REQUEST, error |-> "DUPLICATE_BADGE",
             entity_id |-> got.entity_id,
             db |-> [got.db EXCEPT ![got.entity_id] = instance]]
    ELSE [status |-> 201, error |-> None, entity_id |-> got.entity_id,
          db |-> got.db]

\* create(validated_data): [status, error, entity_id, db].
create(db, user, validated_data, t) ==
    LET data == [f \in (DOMAIN validated_data \ {"image"}) \cup {"imagefile"} |->
                    IF f = "imagefile"
                    THEN IF "image" \in DOMAIN validated_data
                         THEN validated_data["image"] ELSE None
                    ELSE validated_data[f]]
        got == get_or_create_assertion(db, user, data, t)
    IN
    IF got.raised /= None
    THEN [status |-> HTTP_400_BAD_REQUEST, error |-> got.raised,
          entity_id |-> None, db |-> db]
    ELSE IF ~got.created
    THEN LET instance == save([got.db[got.entity_id] EXCEPT
                                 !.acceptance = ACCEPTANCE_ACCEPTED], t)
         IN [status |-> HTTP_400_BAD_REQUEST, error |-> "DUPLICATE_BADGE",
             entity_id |-> got.entity_id,
             db |-> [got.db EXCEPT ![got.entity_id] = instance]]
    ELSE [status |-> 201, error |-> None, entity_id |-> got.entity_id,
          db |-> got.db]

ImportAttrs == [ImportFields -> ImportValues]

BackpackImport_post ==
    /\ Idle
    /\ \E user \in Users, attrs \in ImportAttrs :
        LET checked == validate(attrs) IN
        /\ request' = [op |-> "import", user |-> user, attrs |-> attrs]
        /\ IF checked.raised /= None
           THEN /\ assertions' = assertions
                /\ response' = [op |-> "import", status |-> HTTP_400_BAD_REQUEST,
                                error |-> checked.raised, entity_id |-> None,
                                validated |-> None]
           ELSE LET out == create(assertions, user, checked.attrs, now) IN
                /\ assertions' = out.db
                /\ response' = [op |-> "import", status |-> out.status,
                                error |-> out.error, entity_id |-> out.entity_id,
                                validated |-> checked.attrs]
        /\ UNCHANGED <<staff, tokens, now, feed, client, collections>>

(***************************************************************************)
(* IssuerBadgeInstanceList.get_queryset                                    *)
(***************************************************************************)
\* str.lower() on the query-string values of the model.
lower(v) ==
    CASE v = "TRUE" -> "true"
      [] v = "True" -> "true"
      [] OTHER -> v

\* query_params.get(name, ''): the value, or '' when the parameter is absent.
query_param(v) == IF v = None THEN "" ELSE v

\* get_queryset() with the two flags read from each other's parameter.
list_queryset_flags_swapped(db, issuer, recipients, include_expired, include_revoked, t) ==
    LET q0 == {a \in DOMAIN db : db[a].exists /\ db[a].issuer = issuer}
        q1 == IF recipients /= {}
              THEN {a \in q0 : db[a].recipient \in recipients} ELSE q0
        q2 == IF lower(query_param(include_revoked)) \notin {"1", "true"}
              THEN {a \in q1 : db[a].expires_at = NullTime \/ db[a].expires_at >= t}
              ELSE q1
        q3 == IF lower(query_param(include_expired)) \notin {"1", "true"}
              THEN {a \in q2 : ~db[a].revoked} ELSE q2
    IN q3

\* get_queryset(request): the filters in the order the code applies them.
list_queryset(db, issuer, recipients, include_expired, include_revoked, t) ==
    LET q0 == {a \in DOMAIN db : db[a].exists /\ db[a].issuer = issuer}
        q1 == IF recipients /= {}
              THEN {a \in q0 : db[a].recipient \in recipients} ELSE q0
        q2 == IF lower(query_param(include_expired)) \notin {"1", "true"}
              THEN {a \in q1 : db[a].expires_at = NullTime \/ db[a].expires_at >= t}
              ELSE q1
        q3 == IF lower(query_param(include_revoked)) \notin {"1", "true"}
              THEN {a \in q2 : ~db[a].revoked} ELSE q2
    IN q3

FlagValues == {None, "1", "true", "TRUE", "0"}

IssuerBadgeInstanceList_get ==
    /\ Idle
    /\ \E issuer \in Issuers, recipients \in SUBSET Recipients,
       include_expired \in FlagValues, include_revoked \in FlagValues :
        /\ request' = [op |-> "list", issuer |-> issuer, recipient |-> recipients,
                       include_expired |-> include_expired,
                       include_revoked |-> include_revoked]
        /\ response' = [op |-> "list", status |-> HTTP_200_OK,
                        result |-> list_queryset(assertions, issuer, recipients,
                                        include_expired, include_revoked, now)]
        /\ UNCHANGED <<assertions, staff, tokens, now, feed, client, collections>>

(***************************************************************************)
(* AssertionsChangedSince and PaginatedAssertionsSinceSerializer           *)
(***************************************************************************)
\* An ISO-8601 string: whole seconds and, unless it is zero, the fraction.
IsoString(sec, frac) == [kind |-> "iso", sec |-> sec, frac |-> frac]
NoSince == [kind |-> "absent", sec |-> 0, frac |-> NullTime]     \* no parameter
NotIso == [kind |-> "text", sec |-> 0, frac |-> NullTime]        \* not ISO-8601

\* datetime.isoformat(): the fraction is left out when it is zero.
isoformat(t) ==
    IF t % ClockPerSecond = 0
    THEN IsoString(t \div ClockPerSecond, NullTime)
    ELSE IsoString(t \div ClockPerSecond, t % ClockPerSecond)

\* dateutil.parser.isoparse(): [raised, value].
isoparse(text) ==
    IF text.kind /= "iso"
    THEN [raised |-> "ValueError", value |-> NullTime]
    ELSE [raised |-> None,
          value |-> text.sec * ClockPerSecond
                    + (IF text.frac = NullTime THEN 0 ELSE text.frac)]

BackpackScopes == {"r:backpack", "rw:backpack"}

\* OAuth applications and the user that owns each (application.user); an
\* application may have no user.
Applications == {"app1", "app2"}
ApplicationUser(app) ==
    CASE app = "app1" -> "u2"
      [] OTHER -> None

\* An access token row; scope is the set of its AccessTokenScope rows.
Token(user, application, scope, token, expires) ==
    [user |-> user, application |-> application, scope |-> scope,
     token |-> token, expires |-> expires]

\* The NULL side of a LEFT OUTER JOIN.
NoToken == Token(None, None, {}, None, NullTime)
NoStaff == [issuer |-> None, user |-> None, role |-> None]

\* The rows joined to assertion a: its owner's access tokens, each token's
\* scopes, and its issuer's staff (NULL where there is none).
JoinedTokens(db, tk, a) ==
    LET own == {tok \in tk : db[a].user /= None /\ tok.user = db[a].user}
    IN IF own = {} THEN {NoToken} ELSE own

JoinedScopes(tok) == IF tok.scope = {} THEN {None} ELSE tok.scope

JoinedStaff(db, st, a) ==
    LET members == {s \in st : s.issuer = db[a].issuer}
    IN IF members = {} THEN {NoStaff} ELSE members

\* get_queryset() with the since bound and-ed to the token path only.
changed_join_since_on_token_path(db, st, tk, user, since) ==
    [a \in DOMAIN db |->
        IF ~db[a].exists THEN 0
        ELSE Cardinality(
            {row \in [tok : JoinedTokens(db, tk, a), sc : UNION {JoinedScopes(tok) : tok \in JoinedTokens(db, tk, a)},
                      s : JoinedStaff(db, st, a)] :
                /\ row.sc \in JoinedScopes(row.tok)
                /\ \/ /\ ApplicationUser(row.tok.application) = user
                      /\ row.sc \in BackpackScopes
                      /\ since /= NullTime => db[a].updated_at > since
                   \/ row.s.user = user})]

\* The SQL of get_queryset(request, since): one row per assertion and joined
\* (token, scope, staff) that satisfies
\*   ((application user AND scope) OR staff user) AND updated_at > since.
\* The two token conditions are on the same joined token.  since = NullTime
\* stands for since=None.  The value is the number of rows per assertion.
changed_join(db, st, tk, user, since) ==
    [a \in DOMAIN db |->
        IF ~db[a].exists THEN 0
        ELSE Cardinality(
            {row \in [tok : JoinedTokens(db, tk, a), sc : UNION {JoinedScopes(tok) : tok \in JoinedTokens(db, tk, a)},
                      s : JoinedStaff(db, st, a)] :
                /\ row.sc \in JoinedScopes(row.tok)
                /\ \/ /\ ApplicationUser(row.tok.application) = user
                      /\ row.sc \in BackpackScopes
                   \/ row.s.user = user
                /\ since /= NullTime => db[a].updated_at > since})]

\* .distinct(): each assertion at most once.
distinct(rows) == [a \in DOMAIN rows |-> IF rows[a] > 0 THEN 1 ELSE 0]

\* get_queryset() with the since bound not strict.
changed_queryset_not_strict(db, st, tk, user, since) ==
    {a \in DOMAIN db :
        /\ db[a].exists
        /\ \/ \E tok \in tk : /\ db[a].user /= None
                              /\ tok.user = db[a].user
                              /\ ApplicationUser(tok.application) = user
                              /\ tok.scope \cap BackpackScopes /= {}
           \/ \E s \in st : s.issuer = db[a].issuer /\ s.user = user
        /\ since /= NullTime => db[a].updated_at >= since}

\* get_queryset(request, since): the assertions of the distinct rows.
changed_queryset(db, st, tk, user, since) ==
    {a \in DOMAIN db : distinct(changed_join(db, st, tk, user, since))[a] > 0}

\* get(): the since parameter is parsed, the queryset is built (not yet run)
\* and the serializer takes its timestamp.
AssertionsChangedSince_get ==
    \E user \in Users, since \in {NoSince, NotIso, client.cursor} :
        /\ feed.pc = "idle"
        /\ IF since.kind = "absent"
           THEN feed' = [pc |-> "captured", user |-> user, param |-> since,
                         since |-> NullTime, timestamp |-> now,
                         snapshot |-> assertions]
           ELSE LET parsed == isoparse(since) IN
                IF parsed.raised /= None
                THEN feed' = [pc |-> "done", status |-> HTTP_400_BAD_REQUEST,
                              user |-> user, param |-> since]
                ELSE feed' = [pc |-> "captured", user |-> user, param |-> since,
                              since |-> parsed.value, timestamp |-> now,
                              snapshot |-> assertions]
        /\ UNCHANGED <<assertions, staff, tokens, now, request, response, client,
                 collections>>

\* The SQL query runs (super().__init__) and the representation is built.
PaginatedAssertionsSince_query ==
    /\ feed.pc = "captured"
    /\ feed' = [pc |-> "done", status |-> HTTP_200_OK, user |-> feed.user,
                param |-> feed.param,
                result |-> changed_queryset(assertions, staff, tokens,
                                            feed.user, feed.since),
                rows |-> distinct(changed_join(assertions, staff, tokens,
                                               feed.user, feed.since)),
                since |-> feed.since,
                timestamp |-> isoformat(feed.timestamp),
                taken_at |-> feed.timestamp,
                snapshot |-> feed.snapshot,
                queried |-> assertions]
    /\ UNCHANGED <<assertions, staff, tokens, now, request, response, client,
                 collections>>

\* The client reads the response and keeps its timestamp as the next since.
\* taken_at and snapshot record the clock value and the database at the
\* moment the server took that timestamp, queried the database at the
\* moment the query ran, user the user the poll was made for.
ClientReceive ==
    /\ feed.pc = "done"
    /\ feed' = [pc |-> "idle"]
    /\ client' = IF feed.status = HTTP_200_OK
                 THEN [cursor |-> feed.timestamp, taken_at |-> feed.taken_at,
                       snapshot |-> feed.snapshot, queried |-> feed.queried,
                       user |-> feed.user]
                 ELSE client
    /\ UNCHANGED <<assertions, staff, tokens, now, request, response, collections>>

\* The server clock advances.
Tick ==
    /\ now < MaxClock
    /\ now' = now + 1
    /\ UNCHANGED <<assertions, staff, tokens, request, response, feed, client,
                 collections>>

(***************************************************************************)
(* IssuerTokensList.post                                                   *)
(***************************************************************************)
\* "rw:issuer:{}".format(issuer.entity_id)
issuer_scope(entity_id) ==
    CASE entity_id = "i1" -> "rw:issuer:i1"
      [] entity_id = "i2" -> "rw:issuer:i2"
      [] OTHER -> "rw:issuer:"

ROLE_STAFF == "staff"

\* datetime.timedelta(weeks=5200)
TOKEN_WEEKS == 5200

\* timezone.now() + datetime.timedelta(weeks=...), kept as its two terms.
plus_weeks(t, weeks) == [from |-> t, weeks |-> weeks]

\* random_token_generator(): a value no stored token has; the opaque values
\* are named by the order of their creation.
random_token_generator(tk) ==
    LET used == {tok.token : tok \in tk}
    IN IF used = {} THEN 1
       ELSE 1 + CHOOSE v \in used : \A w \in used : w <= v

\* self.check_object_permissions(request, issuer): the requester is staff of
\* the issuer.
check_object_permissions(st, user, issuer) ==
    \E s \in st : s.issuer = issuer /\ s.user = user

\* The first loop of post(): every requested issuer is looked up and
\* checked, in order; the first failure ends the request.
RECURSIVE check_issuers(_, _, _)
check_issuers(st, user, issuer_entityids) ==
    IF issuer_entityids = <<>> THEN HTTP_200_OK
    ELSE IF Head(issuer_entityids) \notin Issuers THEN HTTP_400_BAD_REQUEST
    ELSE IF ~check_object_permissions(st, user, Head(issuer_entityids))
         THEN HTTP_403_FORBIDDEN
    ELSE check_issuers(st, user, Tail(issuer_entityids))

\* IssuerStaff.cached.get_or_create(issuer=, user=, defaults=dict(role=)).
get_or_create_staff(st, issuer, user, role) ==
    IF \E s \in st : s.issuer = issuer /\ s.user = user
    THEN st
    ELSE st \cup {[issuer |-> issuer, user |-> user, role |-> role]}

\* objects.create() in place of objects.get_or_create().
get_or_create_token_always_creates(tk, user, application, scope, expires, token) ==
    LET created == Token(user, application, {scope}, token, expires)
    IN [tokens |-> tk \cup {created}, accesstoken |-> created]

\* AccessTokenProxy.objects.get_or_create(user=, application=, scope=,
\* defaults=dict(expires=, token=)): [tokens, accesstoken].
get_or_create_token(tk, user, application, scope, expires, token) ==
    LET found == {tok \in tk : /\ tok.user = user
                               /\ tok.application = application
                               /\ tok.scope = {scope}}
        created == Token(user, application, {scope}, token, expires)
    IN IF found /= {}
       THEN [tokens |-> tk, accesstoken |-> CHOOSE tok \in found : TRUE]
       ELSE [tokens |-> tk \cup {created}, accesstoken |-> created]

\* The second loop of post(): membership and token for each issuer, in
\* order: [staff, tokens, data].
RECURSIVE grant_tokens(_, _, _, _, _, _)
grant_tokens(st, tk, application, issuers, expires, data) ==
    IF issuers = <<>>
    THEN [staff |-> st, tokens |-> tk, data |-> data]
    ELSE LET issuer == Head(issuers)
             application_user == ApplicationUser(application)
             st2 == IF application_user /= None
                    THEN get_or_create_staff(st, issuer, application_user,
                                             ROLE_STAFF)
                    ELSE st
             got == get_or_create_token(tk, application_user, application,
                                        issuer_scope(issuer), expires,
                                        random_token_generator(tk))
         IN grant_tokens(st2, got.tokens, application, Tail(issuers), expires,
                         Append(data, [issuer |-> issuer,
                                       token |-> got.accesstoken.token,
                                       expires |-> got.accesstoken.expires]))

\* request.data.get('issuers', None): the field may be absent.
NoIssuers == [present |-> FALSE, value |-> <<>>]
IssuersField(value) == [present |-> TRUE, value |-> value]

\* post() with the issuers before the first failing one granted already.
issuer_tokens_post_grants_before_failure(st, tk, user, application, field, t) ==
    IF ~field.present \/ field.value = <<>>
    THEN [status |-> HTTP_400_BAD_REQUEST, staff |-> st, tokens |-> tk,
          data |-> <<>>]
    ELSE LET checked == check_issuers(st, user, field.value)
             passed == {n \in 0..Len(field.value) :
                          check_issuers(st, user, SubSeq(field.value, 1, n))
                              = HTTP_200_OK}
             k == CHOOSE n \in passed : \A m \in passed : m <= n
             granted == grant_tokens(st, tk, application,
                                     SubSeq(field.value, 1, k),
                                     plus_weeks(t, TOKEN_WEEKS), <<>>)
         IN [status |-> checked, staff |-> granted.staff,
             tokens |-> granted.tokens,
             data |-> IF checked = HTTP_200_OK THEN granted.data ELSE <<>>]

\* post(): [status, staff, tokens, data].
issuer_tokens_post(st, tk, user, application, field, t) ==
    IF ~field.present \/ field.value = <<>>
    THEN [status |-> HTTP_400_BAD_REQUEST, staff |-> st, tokens |-> tk,
          data |-> <<>>]
    ELSE LET checked == check_issuers(st, user, field.value)
             granted == grant_tokens(st, tk, application, field.value,
                                     plus_weeks(t, TOKEN_WEEKS), <<>>)
         IN IF checked /= HTTP_200_OK
            THEN [status |-> checked, staff |-> st, tokens |-> tk,
                  data |-> <<>>]
            ELSE [status |-> HTTP_200_OK, staff |-> granted.staff,
                  tokens |-> granted.tokens, data |-> granted.data]

\* The values of the issuers field of a request.
IssuerLists ==
    {NoIssuers} \cup
    {IssuersField(l) :
        l \in UNION {[1..n -> Issuers \cup {UnknownId}] : n \in 0..MaxBatch}}

IssuerTokensList_post ==
    /\ Idle
    /\ \E user \in Users, application \in Applications,
          field \in IssuerLists :
        LET out == issuer_tokens_post(staff, tokens, user, application,
                                      field, now)
        IN /\ staff' = out.staff
           /\ tokens' = out.tokens
           /\ request' = [op |-> "tokens", user |-> user,
                          application |-> application,
                          issuers |-> field]
           /\ response' = [op |-> "tokens", status |-> out.status,
                           data |-> out.data]
    /\ UNCHANGED <<assertions, now, feed, client, collections>>

(***************************************************************************)
(* BatchAssertionsIssue.post                                               *)
(***************************************************************************)
\* The badge classes and the issuer of each.
BadgeClasses == {"b1", "b2"}
BadgeClassIssuer(badgeclass) == IF badgeclass = "b1" THEN "i1" ELSE "i2"

\* A request body that is not a dict (request.data.get raises
\* AttributeError).
NotADict == [dict |-> FALSE, assertions |-> <<>>]
IssueBody(items) == [dict |-> TRUE, assertions |-> items]

\* The errors of one item of the batch: the recipient is required.
item_errors(item) == IF item.recipient = None THEN {"recipient"} ELSE {}

\* ListSerializer.is_valid() and its _errors: one entry per item.
is_valid(items) == \A i \in 1..Len(items) : item_errors(items[i]) = {}
_errors(items) == [i \in 1..Len(items) |-> item_errors(items[i])]

\* The entity id given to a new assertion: one no row has.
FreeIds(db) == {a \in AssertionIds : ~db[a].exists}
new_entity_id(db) == CHOOSE a \in FreeIds(db) : TRUE

\* serializer.save(created_by=request.user): one new assertion per item, in
\* order: [db, created].
RECURSIVE serializer_save(_, _, _, _, _)
serializer_save(db, issuer, items, t, created) ==
    IF items = <<>>
    THEN [db |-> db, created |-> created]
    ELSE LET entity_id == new_entity_id(db)
             inst == save(Row(issuer, None, Head(items).recipient,
                              "Unaccepted", FALSE, None, NullTime), t)
         IN serializer_save([db EXCEPT ![entity_id] = inst], issuer,
                            Tail(items), t, Append(created, entity_id))

\* post() with the valid items of a refused batch saved.
batch_issue_post_saves_valid_items(db, st, user, badgeclass, body, t) ==
    LET items == body.assertions
        valid == SelectSeq(items, LAMBDA item : item_errors(item) = {})
        saved == serializer_save(db, BadgeClassIssuer(badgeclass), valid, t, <<>>)
    IN IF ~has_object_permissions(st, user, [issuer |-> BadgeClassIssuer(badgeclass)])
       THEN [status |-> HTTP_404_NOT_FOUND, db |-> db, data |-> <<>>,
             field_errors |-> <<>>]
       ELSE IF ~body.dict
       THEN [status |-> HTTP_400_BAD_REQUEST, db |-> db, data |-> <<>>,
             field_errors |-> <<>>]
       ELSE IF ~is_valid(items)
       THEN [status |-> HTTP_400_BAD_REQUEST, db |-> saved.db, data |-> <<>>,
             field_errors |-> _errors(items)]
       ELSE [status |-> HTTP_201_CREATED, db |-> saved.db,
             data |-> saved.created, field_errors |-> <<>>]

\* post(): [status, db, data, field_errors].  The create_notification flag
\* copied into each item and log_create() change no stored row.
batch_issue_post(db, st, user, badgeclass, body, t) ==
    LET items == body.assertions
        saved == serializer_save(db, BadgeClassIssuer(badgeclass), items, t, <<>>)
    IN IF ~has_object_permissions(st, user, [issuer |-> BadgeClassIssuer(badgeclass)])
       THEN [status |-> HTTP_404_NOT_FOUND, db |-> db, data |-> <<>>,
             field_errors |-> <<>>]
       ELSE IF ~body.dict
       THEN [status |-> HTTP_400_BAD_REQUEST, db |-> db, data |-> <<>>,
             field_errors |-> <<>>]
       ELSE IF ~is_valid(items)
       THEN [status |-> HTTP_400_BAD_REQUEST, db |-> db, data |-> <<>>,
             field_errors |-> _errors(items)]
       ELSE [status |-> HTTP_201_CREATED, db |-> saved.db,
             data |-> saved.created, field_errors |-> <<>>]

\* The request bodies: a non-dict, or a dict with a list of items.
IssueItems == {[recipient |-> r] : r \in Recipients \cup {None}}
IssueBodies ==
    {NotADict} \cup
    {IssueBody(items) :
        items \in UNION {[1..n -> IssueItems] : n \in 0..MaxBatch}}

\* A request is taken only while there are unused entity ids for its items.
BatchAssertionsIssue_post ==
    /\ Idle
    /\ \E user \in Users, badgeclass \in BadgeClasses, body \in IssueBodies :
        /\ Len(body.assertions) <= Cardinality(FreeIds(assertions))
        /\ LET out == batch_issue_post(assertions, staff, user, badgeclass,
                                       body, now)
           IN /\ assertions' = out.db
              /\ request' = [op |-> "issue", user |-> user,
                             badgeclass |-> badgeclass, body |-> body]
              /\ response' = [op |-> "issue", status |-> out.status,
                              data |-> out.data,
                              field_errors |-> out.field_errors]
    /\ UNCHANGED <<staff, tokens, now, feed, client, collections>>

(***************************************************************************)
(* BackpackAssertionSerializerV2.to_representation                         *)
(***************************************************************************)
\* A field that refers to an object by id, and the JSON of an object.
Ref(id) == [kind |-> "ref", id |-> id]
IssuerJson(id) == [kind |-> "json", id |-> id]
BadgeClassJson(id, issuer) == [kind |-> "json", id |-> id, issuer |-> Ref(issuer)]

\* instance.cached_badgeclass, instance.cached_issuer.
cached_badgeclass(inst) == IF inst.issuer = "i1" THEN "b1" ELSE "b2"
cached_issuer(inst) == inst.issuer

\* super().to_representation(instance): the bare object when the serializer
\* is nested, the envelope with a one-element result list when it is not.
super_to_representation(entity_id, inst, nested) ==
    LET bare == [entityId |-> entity_id,
                 acceptance |-> inst.acceptance,
                 badgeclass |-> Ref(cached_badgeclass(inst))]
    IN IF nested THEN bare
       ELSE [status |-> [success |-> TRUE], result |-> <<bare>>]

\* The object with ['badgeclass'] (and ['badgeclass']['issuer']) assigned.
embed(object, inst, expands) ==
    IF "badgeclass" \in expands
    THEN LET json == BadgeClassJson(cached_badgeclass(inst), cached_issuer(inst))
         IN [object EXCEPT !.badgeclass =
                IF "issuer" \in expands
                THEN [json EXCEPT !.issuer = IssuerJson(cached_issuer(inst))]
                ELSE json]
    ELSE object

\* to_representation() with the issuer test beside the badgeclass test.
to_representation_issuer_alone(entity_id, inst, expands, nested) ==
    LET representation == super_to_representation(entity_id, inst, nested)
        widened == IF "issuer" \in expands
                   THEN expands \cup {"badgeclass"} ELSE expands
    IN IF nested
       THEN embed(representation, inst, widened)
       ELSE [representation EXCEPT
                !.result[1] = embed(representation.result[1], inst, widened)]

\* to_representation(instance); nested stands for self.parent is not None.
to_representation(entity_id, inst, expands, nested) ==
    LET representation == super_to_representation(entity_id, inst, nested)
    IN IF nested
       THEN embed(representation, inst, expands)
       ELSE [representation EXCEPT
                !.result[1] = embed(representation.result[1], inst, expands)]

\* The values of the expands request argument.
ExpandValues == SUBSET {"badgeclass", "issuer", "evidence"}

BackpackAssertion_represent ==
    /\ Idle
    /\ \E entity_id \in AssertionIds, expands \in ExpandValues,
          nested \in BOOLEAN :
        /\ assertions[entity_id].exists
        /\ request' = [op |-> "represent", entity_id |-> entity_id,
                       expands |-> expands, nested |-> nested]
        /\ response' = [op |-> "represent",
                        representation |->
                            to_representation(entity_id, assertions[entity_id],
                                              expands, nested)]
    /\ UNCHANGED <<assertions, staff, tokens, now, feed, client, collections>>

(***************************************************************************)
(* BackpackCollectionSerializerV2                                          *)
(***************************************************************************)
CollectionIds == {"c1", "c2"}

\* A BackpackCollection row; badge_items is the set of its assertions.
NoCollection == [exists |-> FALSE, owner |-> None, published |-> FALSE,
                 badge_items |-> {}]
Collection(owner, published, badge_items) ==
    [exists |-> TRUE, owner |-> owner, published |-> published,
     badge_items |-> badge_items]

\* The assertions field (required=False): absent, or a list of entity ids.
NoAssertions == [present |-> FALSE, value |-> {}]
AssertionsField(value) == [present |-> TRUE, value |-> value]

\* EntityRelatedFieldV2(many=True, queryset=BadgeInstance.cached): every id
\* must name a BadgeInstance, of whatever user.
assertions_is_valid(db, field) ==
    \A entity_id \in field.value : entity_id \in DOMAIN db /\ db[entity_id].exists

\* The badge_items setter with the assertions of any user kept.
set_badge_items_any_owner(db, collection, value) ==
    [collection EXCEPT !.badge_items = {a \in value : db[a].exists}]

\* The badge_items setter of BackpackCollection: the collection keeps the
\* named assertions that belong to its owner.
set_badge_items(db, collection, value) ==
    [collection EXCEPT !.badge_items =
        {a \in value : db[a].exists /\ db[a].user = collection.owner}]

\* The write of a validated request to a collection row: published when
\* given, badge_items when given.
write_collection(db, collection, published, field) ==
    LET flagged == IF published = None THEN collection
                   ELSE [collection EXCEPT !.published = (published = "true")]
    IN IF field.present THEN set_badge_items(db, flagged, field.value)
       ELSE flagged

\* The published field (required=False): absent, or a boolean.
PublishedField == {None, "true", "false"}

CollectionAssertions ==
    {NoAssertions} \cup
    {AssertionsField(value) : value \in SUBSET (AssertionIds \cup {UnknownId})}

\* POST: a new collection of the requesting user.
BackpackCollection_create ==
    /\ Idle
    /\ \E user \in Users, published \in PublishedField,
          field \in CollectionAssertions :
        LET free == {c \in CollectionIds : ~collections[c].exists}
            entity_id == CHOOSE c \in free : TRUE
        IN /\ free /= {}
           /\ request' = [op |-> "collection", user |-> user,
                          entity_id |-> None, assertions |-> field]
           /\ IF ~assertions_is_valid(assertions, field)
              THEN /\ collections' = collections
                   /\ response' = [op |-> "collection",
                                   status |-> HTTP_400_BAD_REQUEST,
                                   entity_id |-> None]
              ELSE /\ collections' =
                        [collections EXCEPT ![entity_id] =
                            write_collection(assertions,
                                             Collection(user, FALSE, {}),
                                             published, field)]
                   /\ response' = [op |-> "collection",
                                   status |-> HTTP_201_CREATED,
                                   entity_id |-> entity_id]
    /\ UNCHANGED <<assertions, staff, tokens, now, feed, client>>

\* PUT: the owner updates a collection; others do not find it.
BackpackCollection_update ==
    /\ Idle
    /\ \E user \in Users, entity_id \in CollectionIds,
          published \in PublishedField, field \in CollectionAssertions :
        /\ request' = [op |-> "collection", user |-> user,
                       entity_id |-> entity_id, assertions |-> field]
        /\ IF ~collections[entity_id].exists
              \/ collections[entity_id].owner /= user
           THEN /\ collections' = collections
                /\ response' = [op |-> "collection",
                                status |-> HTTP_404_NOT_FOUND,
                                entity_id |-> entity_id]
           ELSE IF ~assertions_is_valid(assertions, field)
           THEN /\ collections' = collections
                /\ response' = [op |-> "collection",
                                status |-> HTTP_400_BAD_REQUEST,
                                entity_id |-> entity_id]
           ELSE /\ collections' =
                     [collections EXCEPT ![entity_id] =
                         write_collection(assertions, collections[entity_id],
                                          published, field)]
                /\ response' = [op |-> "collection", status |-> HTTP_200_OK,
                                entity_id |-> entity_id]
    /\ UNCHANGED <<assertions, staff, tokens, now, feed, client>>

(***************************************************************************)
(* The response leaves the server.                                         *)
(***************************************************************************)
Respond ==
    /\ ~Idle
    /\ request' = [op |-> "none"]
    /\ response' = [op |-> "none"]
    /\ UNCHANGED <<assertions, staff, tokens, now, feed, client, collections>>

(***************************************************************************)
(* Specification.                                                          *)
(***************************************************************************)
InitStaff == {[issuer |-> "i1", user |-> "u1", role |-> "owner"],
              [issuer |-> "i2", user |-> "u1", role |-> "editor"],
              [issuer |-> "i2", user |-> "u2", role |-> "staff"]}

Init ==
    /\ \E acc1 \in ACCEPTANCE_CHOICES, acc2 \in ACCEPTANCE_CHOICES,
          rev2 \in BOOLEAN :
        assertions =
            [a \in AssertionIds |->
                CASE a = "a1" -> Row("i1", "u1", "r1", acc1, FALSE, None, NullTime)
                  [] a = "a2" -> Row("i2", None, "r2", acc2, rev2,
                                     IF rev2 THEN "expired offer" ELSE None,
                                     NullTime)
                  [] OTHER -> NoRow]
    /\ staff = InitStaff
    /\ tokens = {}
    /\ now = 0
    /\ request = [op |-> "none"]
    /\ response = [op |-> "none"]
    /\ feed = [pc |-> "idle"]
    /\ collections = [c \in CollectionIds |-> NoCollection]
    /\ client = [cursor |-> NoSince]

Next ==
    \/ BadgeInstanceDetail_delete
    \/ BatchAssertionsRevoke_post
    \/ BackpackAssertionAcceptance_update
    \/ BackpackImport_post
    \/ Respond

Spec == Init /\ [][Next]_vars

(***************************************************************************)
(* The assertion list of an issuer, over databases whose rows differ in    *)
(* issuer, recipient, expiry and revocation.                               *)
(***************************************************************************)
ExpiryValues == {NullTime} \cup (0..MaxClock)

InitList ==
    /\ \E iss2 \in Issuers, rcp2 \in Recipients, rev1 \in BOOLEAN, rev2 \in BOOLEAN,
          exp1 \in ExpiryValues, exp2 \in ExpiryValues :
        assertions =
            [a \in AssertionIds |->
                CASE a = "a1" -> Row("i1", "u1", "r1", "Accepted", rev1,
                                     IF rev1 THEN "policy" ELSE None, exp1)
                  [] a = "a2" -> Row(iss2, None, rcp2, "Accepted", rev2,
                                     IF rev2 THEN "policy" ELSE None, exp2)
                  [] OTHER -> NoRow]
    /\ staff = InitStaff
    /\ tokens = {}
    /\ now \in 1..MaxClock
    /\ request = [op |-> "none"]
    /\ response = [op |-> "none"]
    /\ feed = [pc |-> "idle"]
    /\ collections = [c \in CollectionIds |-> NoCollection]
    /\ client = [cursor |-> NoSince]

NextList ==
    \/ IssuerBadgeInstanceList_get
    \/ Respond

SpecList == InitList /\ [][NextList]_vars

(***************************************************************************)
(* The change feed: a client polls while assertions are accepted and the   *)
(* clock advances.                                                         *)
(***************************************************************************)
InitFeed ==
    /\ assertions =
            [a \in AssertionIds |->
                CASE a = "a1" -> Row("i1", "u1", "r1", "Unaccepted", FALSE, None, NullTime)
                  [] OTHER -> NoRow]
    /\ staff = InitStaff
    /\ tokens = {Token("u1", "app1", {"r:backpack"}, 1,
                      plus_weeks(0, TOKEN_WEEKS))}
    /\ now = 0
    /\ request = [op |-> "none"]
    /\ response = [op |-> "none"]
    /\ feed = [pc |-> "idle"]
    /\ collections = [c \in CollectionIds |-> NoCollection]
    /\ client = [cursor |-> NoSince]

NextFeed ==
    \/ AssertionsChangedSince_get
    \/ PaginatedAssertionsSince_query
    \/ ClientReceive
    \/ BackpackAssertionAcceptance_update
    \/ Respond
    \/ Tick

SpecFeed == InitFeed /\ [][NextFeed]_vars

(***************************************************************************)
(* The change feed query over databases that differ in who owns the        *)
(* assertions, when they were last saved and which access tokens exist.    *)
(***************************************************************************)
TokenPool ==
    {Token("u1", "app1", {"r:backpack", "rw:backpack"}, 1, plus_weeks(0, TOKEN_WEEKS)),
     Token("u1", "app1", {"r:profile"}, 2, plus_weeks(0, TOKEN_WEEKS)),
     Token("u1", "app2", {"rw:backpack"}, 3, plus_weeks(0, TOKEN_WEEKS))}

InitChanged ==
    /\ \E owner1 \in {"u1", None}, t1 \in 0..MaxClock, t2 \in 0..MaxClock :
        assertions =
            [a \in AssertionIds |->
                CASE a = "a1" -> save(Row("i1", owner1, "r1", "Unaccepted",
                                          FALSE, None, NullTime), t1)
                  [] a = "a2" -> save(Row("i2", "u1", "r2", "Accepted",
                                          FALSE, None, NullTime), t2)
                  [] OTHER -> NoRow]
    /\ staff = InitStaff
    /\ tokens \in SUBSET TokenPool
    /\ now = MaxClock
    /\ request = [op |-> "none"]
    /\ response = [op |-> "none"]
    /\ feed = [pc |-> "idle"]
    /\ collections = [c \in CollectionIds |-> NoCollection]
    /\ \E t \in 0..MaxClock :
        client = [cursor |-> isoformat(t), taken_at |-> t,
                  snapshot |-> assertions, queried |-> assertions,
                  user |-> "u1"]

NextChanged ==
    \/ AssertionsChangedSince_get
    \/ PaginatedAssertionsSince_query
    \/ ClientReceive

SpecChanged == InitChanged /\ [][NextChanged]_vars

(***************************************************************************)
(* Issuer tokens: applications ask for tokens while the clock advances.    *)
(***************************************************************************)
InitTokens ==
    /\ assertions = [a \in AssertionIds |-> NoRow]
    /\ \E member \in SUBSET {[issuer |-> "i1", user |-> "u2", role |-> "editor"]} :
        staff = {[issuer |-> "i1", user |-> "u1", role |-> "owner"],
                 [issuer |-> "i2", user |-> "u1", role |-> "editor"],
                 [issuer |-> "i2", user |-> "u2", role |-> "owner"]} \cup member
    /\ tokens = {}
    /\ now = 0
    /\ request = [op |-> "none"]
    /\ response = [op |-> "none"]
    /\ feed = [pc |-> "idle"]
    /\ collections = [c \in CollectionIds |-> NoCollection]
    /\ client = [cursor |-> NoSince]

NextTokens ==
    \/ IssuerTokensList_post
    \/ Respond
    \/ Tick

SpecTokens == InitTokens /\ [][NextTokens]_vars

(***************************************************************************)
(* Batch issue: assertions are awarded in batches.                         *)
(***************************************************************************)
InitIssue ==
    /\ assertions \in {[a \in AssertionIds |-> NoRow],
                       [a \in AssertionIds |->
                           IF a = "a2"
                           THEN Row("i2", None, "r1", "Unaccepted", FALSE,
                                    None, NullTime)
                           ELSE NoRow]}
    /\ staff = {[issuer |-> "i1", user |-> "u1", role |-> "owner"],
                [issuer |-> "i2", user |-> "u1", role |-> "editor"],
                [issuer |-> "i2", user |-> "u2", role |-> "staff"]}
    /\ tokens = {}
    /\ now = 0
    /\ request = [op |-> "none"]
    /\ response = [op |-> "none"]
    /\ feed = [pc |-> "idle"]
    /\ collections = [c \in CollectionIds |-> NoCollection]
    /\ client = [cursor |-> NoSince]

NextIssue ==
    \/ BatchAssertionsIssue_post
    \/ Respond

SpecIssue == InitIssue /\ [][NextIssue]_vars

(***************************************************************************)
(* Representation: assertions are serialized with expands.                 *)
(***************************************************************************)
InitRepresent ==
    /\ \E acc1 \in ACCEPTANCE_CHOICES, issuer2 \in Issuers :
        assertions =
            [a \in AssertionIds |->
                CASE a = "a1" -> Row("i1", "u1", "r1", acc1, FALSE, None, NullTime)
                  [] a = "a2" -> Row(issuer2, None, "r2", "Unaccepted", FALSE,
                                     None, NullTime)
                  [] OTHER -> NoRow]
    /\ staff = InitStaff
    /\ tokens = {}
    /\ now = 0
    /\ request = [op |-> "none"]
    /\ response = [op |-> "none"]
    /\ feed = [pc |-> "idle"]
    /\ collections = [c \in CollectionIds |-> NoCollection]
    /\ client = [cursor |-> NoSince]

NextRepresent ==
    \/ BackpackAssertion_represent
    \/ Respond

SpecRepresent == InitRepresent /\ [][NextRepresent]_vars

(***************************************************************************)
(* Collections: users create and update backpack collections.              *)
(***************************************************************************)
InitCollections ==
    /\ \E owner3 \in {"u1", None} :
        assertions =
            [a \in AssertionIds |->
                CASE a = "a1" -> Row("i1", "u1", "r1", "Accepted", FALSE, None, NullTime)
                  [] a = "a2" -> Row("i2", "u2", "r2", "Accepted", FALSE, None, NullTime)
                  [] OTHER -> Row("i1", owner3, "r1", "Unaccepted", FALSE, None, NullTime)]
    /\ staff = InitStaff
    /\ tokens = {}
    /\ now = 0
    /\ request = [op |-> "none"]
    /\ response = [op |-> "none"]
    /\ feed = [pc |-> "idle"]
    /\ client = [cursor |-> NoSince]
    /\ collections = [c \in CollectionIds |-> NoCollection]

NextCollections ==
    \/ BackpackCollection_create
    \/ BackpackCollection_update
    \/ Respond

SpecCollections == InitCollections /\ [][NextCollections]_vars

(***************************************************************************)
(* Properties.                                                             *)
(***************************************************************************)
\* The fields of a row other than its updated_at stamp.
Content(inst) == [inst EXCEPT !.updated_at = 0]

Exists(db, entity_id) == entity_id \in AssertionIds /\ db[entity_id].exists

\* Entry i of a batch names an existing, not yet revoked assertion the caller
\* may edit, gives a non-empty reason, and no earlier entry of the list does
\* the same for that assertion.
ValidEntry(db, st, user, data, i) ==
    /\ Exists(db, data[i].entityId)
    /\ ~db[data[i].entityId].revoked
    /\ has_object_permissions(st, user, db[data[i].entityId])
    /\ Truthy(data[i].revocationReason)
    /\ \A j \in 1..(i - 1) :
          ~(data[j].entityId = data[i].entityId /\ Truthy(data[j].revocationReason))

\* C1: a batch revoke answers HTTP 200 with one result per entry, in input
\* order; an entry without entityId, without revocationReason, naming an
\* unknown assertion or refused by revoke() (empty reason, already revoked)
\* is reported with revoked=false and its reason, and every
\* valid entry of the same list, before or after a failing one, is revoked
\* with its reason and reported with revoked=true.
C1_BatchEntriesIndependent ==
    [][response'.op = "batch_revoke" =>
        LET data == request'.data
            result == response'.result
        IN
        /\ response'.status = HTTP_200_OK
        /\ Len(result) = Len(data)
        /\ \A i \in 1..Len(data) :
            /\ result[i].entityId = data[i].entityId
            /\ data[i].entityId = None =>
                 result[i] = RevokeResponse(FALSE, None, None, "entityId is required")
            /\ (data[i].entityId /= None /\ data[i].revocationReason = None) =>
                 result[i] = RevokeResponse(FALSE, data[i].entityId, None,
                                            "revocationReason is required")
            /\ (data[i].entityId /= None /\ data[i].revocationReason /= None
                    /\ ~Exists(assertions, data[i].entityId)) =>
                 result[i] = RevokeResponse(FALSE, data[i].entityId,
                                 data[i].revocationReason,
                                 "permission denied or object not found")
            /\ (/\ Exists(assertions, data[i].entityId)
                /\ \/ data[i].revocationReason = ""
                   \/ /\ data[i].revocationReason /= None
                      /\ assertions[data[i].entityId].revoked) =>
                 /\ ~result[i].revoked
                 /\ result[i].reason \in {"revocation_reason is required",
                                          "Assertion is already revoked"}
            /\ ValidEntry(assertions, staff, request'.user, data, i) =>
                 /\ result[i] = RevokeResponse(TRUE, data[i].entityId,
                                               data[i].revocationReason, None)
                 /\ assertions'[data[i].entityId].revoked
                 /\ assertions'[data[i].entityId].revocation_reason
                        = data[i].revocationReason
    ]_vars

\* C1 witness: a two-entry batch whose first entry failed and whose second
\* entry was revoked.
C1_Witness ==
    /\ response.op = "batch_revoke"
    /\ Len(response.result) = 2
    /\ ~response.result[1].revoked
    /\ response.result[2].revoked
    /\ has_object_permissions(staff, request.user,
                              assertions[request.data[2].entityId])

C3_RevocationTerminal ==
    [][\A a \in AssertionIds :
          /\ assertions[a].exists => assertions'[a].exists
          /\ (assertions[a].exists /\ assertions[a].revoked) =>
                assertions'[a].revoked
    ]_vars

\* C3 witness: a revoked assertion was imported again (duplicate) and is
\* still revoked.
C3_Witness ==
    /\ response.op = "import"
    /\ response.error = "DUPLICATE_BADGE"
    /\ assertions[response.entity_id].revoked

\* C4: delete of an existing assertion answers 404 without object permission
\* (whatever the reason field holds), else 400 when revocation_reason is
\* missing or empty or the assertion is already revoked, else 200 with the
\* updated representation; on 404 and 400 nothing changes.
C4_DeleteStatus ==
    [][(response'.op = "delete" /\ Exists(assertions, request'.entity_id)) =>
        LET row == assertions[request'.entity_id]
            reason == request'.revocation_reason
            expected ==
                IF ~has_object_permissions(staff, request'.user, row)
                THEN HTTP_404_NOT_FOUND
                ELSE IF reason = None \/ reason = "" \/ row.revoked
                THEN HTTP_400_BAD_REQUEST
                ELSE HTTP_200_OK
        IN
        /\ response'.status = expected
        /\ expected /= HTTP_200_OK => assertions' = assertions
        /\ expected = HTTP_200_OK =>
            /\ assertions'[request'.entity_id].revoked
            /\ assertions'[request'.entity_id].revocation_reason = reason
            /\ response'.data = assertions'[request'.entity_id]
    ]_vars

\* C4 witness: a delete without permission and without a reason was answered
\* 404 (the permission check came first).
C4_Witness ==
    /\ response.op = "delete"
    /\ Exists(assertions, request.entity_id)
    /\ request.revocation_reason = None
    /\ response.status = HTTP_404_NOT_FOUND

\* C5: every revoked assertion has a non-empty revocation reason.
C5_RevokedHasReason ==
    \A a \in AssertionIds :
        (assertions[a].exists /\ assertions[a].revoked) =>
            Truthy(assertions[a].revocation_reason)

\* C5 witness: a batch entry with an empty revocationReason named an existing
\* assertion and did not revoke it.
C5_Witness ==
    /\ response.op = "batch_revoke"
    /\ \E i \in 1..Len(request.data) :
          /\ request.data[i].revocationReason = ""
          /\ Exists(assertions, request.data[i].entityId)
          /\ ~response.result[i].revoked
          /\ ~assertions[request.data[i].entityId].revoked
          /\ has_object_permissions(staff, request.user,
                                    assertions[request.data[i].entityId])

\* The import fields that are present with a non-empty value.
SetFields(attrs) == {f \in ImportFields : attrs[f] /= None /\ attrs[f] /= Empty}

\* C6: import validation fails with the "only one of" error exactly when the
\* number of set fields among url, image, assertion is not one; with exactly
\* one set, the attributes reach create() unchanged.
C6_ExactlyOneField ==
    response.op = "import" =>
        /\ (response.error = "Must provide only one of 'url', 'image' or 'assertion'.")
              <=> (Cardinality(SetFields(request.attrs)) /= 1)
        /\ Cardinality(SetFields(request.attrs)) = 1 =>
              response.validated = request.attrs
        /\ Cardinality(SetFields(request.attrs)) /= 1 =>
              response.status = HTTP_400_BAD_REQUEST

\* C6 witness: an import with exactly one field set passed validation.
C6_Witness ==
    /\ response.op = "import"
    /\ Cardinality(SetFields(request.attrs)) = 1
    /\ response.validated = request.attrs

\* The assertion a valid import request refers to.
ImportTarget(attrs) == attrs[CHOOSE f \in SetFields(attrs) : TRUE]

\* C7: importing an assertion that already exists leaves it persisted with
\* acceptance "Accepted", fails with DUPLICATE_BADGE, and leaves the set of
\* existing assertions as it was.
C7_DuplicateImport ==
    [][(/\ response'.op = "import"
        /\ Cardinality(SetFields(request'.attrs)) = 1
        /\ Exists(assertions, ImportTarget(request'.attrs))) =>
        LET e == ImportTarget(request'.attrs) IN
        /\ response'.status = HTTP_400_BAD_REQUEST
        /\ response'.error = "DUPLICATE_BADGE"
        /\ assertions'[e].acceptance = "Accepted"
        /\ {a \in AssertionIds : assertions'[a].exists}
              = {a \in AssertionIds : assertions[a].exists}
        /\ \A a \in AssertionIds \ {e} : assertions'[a] = assertions[a]
    ]_vars

\* C7 witness: a duplicate import was answered with DUPLICATE_BADGE.
C7_Witness ==
    /\ response.op = "import"
    /\ response.error = "DUPLICATE_BADGE"
    /\ assertions[response.entity_id].acceptance = "Accepted"

\* C8: after an acceptance update the instance's acceptance is "Accepted"
\* whatever it was before, a second update would leave the same row (apart
\* from its updated_at stamp), and publish() was called once on the owning
\* user, or not at all when there is none.
C8_AcceptIdempotent ==
    [][(response'.op = "accept" /\ response'.status = HTTP_200_OK) =>
        LET e == request'.entity_id
            again == update(assertions'[e], request'.data, now' + 1)
        IN
        /\ assertions'[e].acceptance = "Accepted"
        /\ Content(assertions'[e])
              = [Content(assertions[e]) EXCEPT !.acceptance = "Accepted"]
        /\ Content(again.inst) = Content(assertions'[e])
        /\ again.published = response'.published
        /\ response'.published =
              IF assertions[e].user /= None THEN <<assertions[e].user>> ELSE <<>>
    ]_vars

\* C8 witness: an acceptance update on an assertion with an owning user
\* published once.
C8_Witness ==
    /\ response.op = "accept"
    /\ response.status = HTTP_200_OK
    /\ Len(response.published) = 1
    /\ assertions[request.entity_id].acceptance = "Accepted"

\* A flag value that switches its filter off: "1" or "true" in any case.
FlagOn(v) == v \in {"1", "true", "True", "TRUE"}

\* C9: the list holds exactly the issuer's assertions that match the recipient
\* filter (all when none is given), that are not revoked unless
\* include_revoked is on, and that are not expired (expires_at null or not
\* before the clock) unless include_expired is on; any other flag value acts
\* as an absent flag.
C9_ListFilters ==
    response.op = "list" =>
        response.result =
            {a \in AssertionIds :
                /\ assertions[a].exists
                /\ assertions[a].issuer = request.issuer
                /\ request.recipient = {} \/ assertions[a].recipient \in request.recipient
                /\ FlagOn(request.include_revoked) \/ ~assertions[a].revoked
                /\ \/ FlagOn(request.include_expired)
                   \/ assertions[a].expires_at = NullTime
                   \/ assertions[a].expires_at >= now}

\* C9 witness: with include_expired on (in upper case) and include_revoked
\* off, an expired assertion is listed and a revoked one of the same issuer
\* is not.
C9_Witness ==
    /\ response.op = "list"
    /\ request.include_expired = "TRUE"
    /\ ~FlagOn(request.include_revoked)
    /\ \E a \in response.result :
          assertions[a].expires_at /= NullTime /\ assertions[a].expires_at < now
    /\ \E a \in AssertionIds \ response.result :
          /\ assertions[a].exists
          /\ assertions[a].issuer = request.issuer
          /\ assertions[a].revoked

\* The assertions the feed shows to a user, whatever their updated_at.
VisibleTo(user) == changed_queryset(assertions, staff, tokens, user, NullTime)

\* C10: a poll that passes the timestamp of the previous poll as since
\* returns only assertions whose updated_at is strictly greater than the
\* clock value that timestamp was taken at, and returns nothing when the
\* database is as it was when that timestamp was taken.
C10_SecondPoll ==
    [][(/\ feed.pc = "captured"
        /\ feed'.pc = "done"
        /\ feed.param.kind = "iso"
        /\ feed.param = client.cursor) =>
        /\ feed'.status = HTTP_200_OK
        /\ \A a \in feed'.result : assertions[a].updated_at > client.taken_at
        /\ assertions = client.snapshot => feed'.result = {}
    ]_vars

\* C10 witness: a second poll with the first poll's timestamp found the
\* database unchanged and returned nothing, although the user has visible
\* assertions.
C10_Witness ==
    /\ feed.pc = "done"
    /\ feed.status = HTTP_200_OK
    /\ feed.param.kind = "iso"
    /\ feed.param = client.cursor
    /\ assertions = client.snapshot
    /\ feed.result = {}
    /\ VisibleTo(feed.user) /= {}

\* The owner of assertion a holds one access token that belongs to an
\* application of the user and carries a backpack scope.
TokenPath(user, a) ==
    /\ assertions[a].user /= None
    /\ \E tok \in tokens :
          /\ tok.user = assertions[a].user
          /\ ApplicationUser(tok.application) = user
          /\ ("r:backpack" \in tok.scope \/ "rw:backpack" \in tok.scope)

\* The user is staff of the issuer of assertion a.
StaffPath(user, a) ==
    \E s \in staff : s.user = user /\ s.issuer = assertions[a].issuer

\* C11: the feed query returns an assertion exactly once when its owner
\* holds a backpack-scoped token of an application of the requesting user or
\* the requesting user is staff of its issuer, and, when since is given, its
\* updated_at is greater than since on either path; it returns no other
\* assertion.
C11_FeedVisibility ==
    [][(feed.pc = "captured" /\ feed'.pc = "done") =>
        \A a \in AssertionIds :
            feed'.rows[a] =
                IF /\ assertions[a].exists
                   /\ TokenPath(feed.user, a) \/ StaffPath(feed.user, a)
                   /\ feed.param.kind = "iso"
                        => assertions[a].updated_at > isoparse(feed.param).value
                THEN 1 ELSE 0
    ]_vars

\* C11 witness: one poll with a since bound returned an assertion seen only
\* through a token that carries both backpack scopes, left out an assertion
\* of one of the user's issuers that was not saved after the bound, and the
\* owner also holds tokens that match on the application or the scope alone.
C11_Witness ==
    /\ feed.pc = "done"
    /\ feed.status = HTTP_200_OK
    /\ feed.param.kind = "iso"
    /\ feed.rows["a1"] = 1
    /\ ~StaffPath(feed.user, "a1")
    /\ \E tok \in tokens : BackpackScopes \subseteq tok.scope
    /\ \E tok \in tokens : ApplicationUser(tok.application) = feed.user
                           /\ tok.scope \cap BackpackScopes = {}
    /\ \E tok \in tokens : ApplicationUser(tok.application) /= feed.user
                           /\ tok.scope \cap BackpackScopes /= {}
    /\ feed.rows["a2"] = 0
    /\ StaffPath(feed.user, "a2")
    /\ assertions["a2"].updated_at <= feed.since

\* The access tokens of one (application, application user, scope) triple.
TokensOf(tk, application, scope) ==
    {tok \in tk : /\ tok.application = application
                  /\ tok.user = ApplicationUser(application)
                  /\ tok.scope = {scope}}

\* The memberships of a user in an issuer.
Memberships(st, issuer, user) ==
    {s \in st : s.issuer = issuer /\ s.user = user}

\* A request to IssuerTokensList.post is answered in this step.
TokensAnswered == response.op = "none" /\ response'.op = "tokens"

\* C12: after every post there is at most one access token per (application,
\* application user, rw:issuer scope); a successful post returns, for each
\* requested issuer, the token and expiry of the token that already existed
\* for the triple, and otherwise those of the one token it created; stored
\* tokens are never changed; the application user gets one staff-role
\* membership of a requested issuer when they had none, and existing
\* memberships stay as they were.
C12_TokenPerTriple ==
    [][TokensAnswered =>
        /\ \A t1 \in tokens', t2 \in tokens' :
              (/\ t1.application = t2.application
               /\ t1.user = t2.user
               /\ t1.scope = t2.scope) => t1 = t2
        /\ tokens \subseteq tokens'
        /\ staff \subseteq staff'
        /\ response'.status = HTTP_200_OK =>
            LET application == request'.application
                application_user == ApplicationUser(application)
                ids == request'.issuers.value
                data == response'.data
            IN /\ Len(data) = Len(ids)
               /\ \A i \in 1..Len(ids) :
                    /\ data[i].issuer = ids[i]
                    /\ \A tok \in TokensOf(tokens, application, issuer_scope(ids[i])) :
                          data[i].token = tok.token /\ data[i].expires = tok.expires
                    /\ \E tok \in TokensOf(tokens', application, issuer_scope(ids[i])) :
                          data[i].token = tok.token /\ data[i].expires = tok.expires
               /\ \A issuer \in Issuers, user \in Users :
                    Memberships(staff', issuer, user) =
                        IF /\ Memberships(staff, issuer, user) = {}
                           /\ user = application_user
                           /\ \E i \in 1..Len(ids) : ids[i] = issuer
                        THEN {[issuer |-> issuer, user |-> user, role |-> "staff"]}
                        ELSE Memberships(staff, issuer, user)
    ]_vars

\* C12 witness: a post for both issuers, answered after the clock has
\* advanced, returned a token created by an earlier post with its earlier
\* expiry; the application user was already a member of one issuer with
\* another role and became staff of the other.
C12_Witness ==
    /\ response.op = "tokens"
    /\ response.status = HTTP_200_OK
    /\ Len(response.data) = 2
    /\ response.data[1].issuer /= response.data[2].issuer
    /\ \E i \in 1..2 : response.data[i].expires.from < now
    /\ ApplicationUser(request.application) = "u2"
    /\ [issuer |-> "i1", user |-> "u2", role |-> "staff"] \in staff
    /\ [issuer |-> "i2", user |-> "u2", role |-> "owner"] \in staff

\* C16: a post whose issuers field is missing or empty, or that names an
\* unknown issuer or an issuer the requester has no permission on, creates
\* no membership and no access token, also not for the issuers listed before
\* the failing one; it is answered with 400 or 403, the status of the first
\* failing issuer of the list.
C16_ValidateBeforeMutate ==
    [][TokensAnswered =>
        LET field == request'.issuers
            ids == field.value
            Unknown(i) == ids[i] \notin Issuers
            Denied(i) == /\ ids[i] \in Issuers
                         /\ ~\E s \in staff : s.issuer = ids[i]
                                              /\ s.user = request'.user
            Fails(i) == Unknown(i) \/ Denied(i)
        IN (\/ ~field.present
            \/ ids = <<>>
            \/ \E i \in 1..Len(ids) : Fails(i)) =>
              /\ staff' = staff
              /\ tokens' = tokens
              /\ response'.status \in {HTTP_400_BAD_REQUEST, HTTP_403_FORBIDDEN}
              /\ response'.status = HTTP_403_FORBIDDEN <=>
                    \E i \in 1..Len(ids) :
                        Denied(i) /\ \A j \in 1..(i - 1) : ~Fails(j)
    ]_vars

\* C16 witness: a refused post whose first issuer passed its checks and had
\* neither a token for the application nor the application user as member.
C16_Witness ==
    /\ response.op = "tokens"
    /\ response.status /= HTTP_200_OK
    /\ request.issuers.present
    /\ Len(request.issuers.value) >= 2
    /\ request.issuers.value[1] \in Issuers
    /\ check_object_permissions(staff, request.user, request.issuers.value[1])
    /\ ApplicationUser(request.application) /= None
    /\ Memberships(staff, request.issuers.value[1],
                   ApplicationUser(request.application)) = {}
    /\ TokensOf(tokens, request.application,
                issuer_scope(request.issuers.value[1])) = {}

\* A request to BatchAssertionsIssue.post by a user with permission on the
\* badge class, with a dict body, is answered in this step.
IssueAnswered ==
    /\ response.op = "none"
    /\ response'.op = "issue"
    /\ request'.body.dict
    /\ has_object_permissions(staff, request'.user,
                              [issuer |-> BadgeClassIssuer(request'.badgeclass)])

\* The rows this step created.
Issued == {a \in AssertionIds : ~assertions[a].exists /\ assertions'[a].exists}

\* The rows this step created for a recipient.
IssuedTo(recipient) == {a \in Issued : assertions'[a].recipient = recipient}

\* The items of a list that are valid and name a recipient.
ValidItems(items, recipient) ==
    {i \in 1..Len(items) : items[i].recipient /= None
                           /\ items[i].recipient = recipient}

\* C13, as stated: when an item of the batch fails validation, the valid
\* items of the same request are still issued.
C13_ValidItemsStillIssued ==
    [][(/\ IssueAnswered
        /\ \E i \in 1..Len(request'.body.assertions) :
              request'.body.assertions[i].recipient = None) =>
        \A r \in Recipients :
            Cardinality(IssuedTo(r))
                = Cardinality(ValidItems(request'.body.assertions, r))
    ]_vars

\* C13, amended: when an item of the batch fails validation the whole batch
\* is refused with HTTP 400 and one error entry per item, empty for the
\* valid items, and no assertion is issued; when every item is valid, one
\* assertion per item is issued with HTTP 201; existing rows are not
\* changed either way.
C13_AllOrNothing ==
    [][IssueAnswered =>
        LET items == request'.body.assertions
            failing == {i \in 1..Len(items) : items[i].recipient = None}
        IN /\ \A a \in AssertionIds :
                assertions[a].exists => assertions'[a] = assertions[a]
           /\ IF failing /= {}
              THEN /\ response'.status = HTTP_400_BAD_REQUEST
                   /\ Issued = {}
                   /\ Len(response'.field_errors) = Len(items)
                   /\ \A i \in 1..Len(items) :
                        (response'.field_errors[i] /= {}) <=> (i \in failing)
              ELSE /\ response'.status = HTTP_201_CREATED
                   /\ Len(response'.data) = Len(items)
                   /\ Issued = {response'.data[i] : i \in 1..Len(items)}
                   /\ \A r \in Recipients :
                        Cardinality(IssuedTo(r))
                            = Cardinality(ValidItems(items, r))
                   /\ \A a \in Issued :
                        assertions'[a].issuer
                            = BadgeClassIssuer(request'.badgeclass)
    ]_vars

\* C13 witness: a batch with a valid and a failing item was refused by a
\* user with permission while unused entity ids were left.
C13_Witness ==
    /\ response.op = "issue"
    /\ response.status = HTTP_400_BAD_REQUEST
    /\ request.body.dict
    /\ \E i \in 1..Len(request.body.assertions) :
          request.body.assertions[i].recipient = None
    /\ \E i \in 1..Len(request.body.assertions) :
          request.body.assertions[i].recipient /= None
    /\ FreeIds(assertions) /= {}
    /\ \E a \in AssertionIds : assertions[a].exists

\* The object of a representation the assertion's fields are in: the
\* representation itself when nested, the first result of the envelope when
\* standalone.
AssertionObject ==
    IF request.nested THEN response.representation
    ELSE response.representation.result[1]

\* C14: the badgeclass field holds the badge class JSON exactly when expands
\* contains badgeclass and the reference otherwise; the embedded badge class
\* holds the issuer JSON exactly when expands also contains issuer; with
\* issuer but not badgeclass nothing is embedded; a nested serializer writes
\* to the bare object, a standalone one to the first element of the result
\* list of the envelope.
C14_Expands ==
    response.op = "represent" =>
        LET inst == assertions[request.entity_id]
            envelope == response.representation
            object == AssertionObject
        IN /\ IF request.nested
              THEN "result" \notin DOMAIN envelope
              ELSE /\ "result" \in DOMAIN envelope
                   /\ "badgeclass" \notin DOMAIN envelope
                   /\ Len(envelope.result) = 1
           /\ object.entityId = request.entity_id
           /\ object.badgeclass.id = cached_badgeclass(inst)
           /\ (object.badgeclass.kind = "json")
                <=> ("badgeclass" \in request.expands)
           /\ "badgeclass" \notin request.expands =>
                object.badgeclass = Ref(cached_badgeclass(inst))
           /\ "badgeclass" \in request.expands =>
                /\ object.badgeclass.issuer.id = inst.issuer
                /\ (object.badgeclass.issuer.kind = "json")
                     <=> ("issuer" \in request.expands)

\* C14 witness: a standalone serializer embedded the badge class with the
\* issuer nested inside it in the first element of the result list.
C14_Witness ==
    /\ response.op = "represent"
    /\ ~request.nested
    /\ request.expands = {"badgeclass", "issuer"}
    /\ response.representation.result[1].badgeclass.issuer.kind = "json"

C17_NoLostUpdate ==
    [][(/\ feed.pc = "captured"
        /\ feed'.pc = "done"
        /\ feed.param.kind = "iso"
        /\ feed.param = client.cursor
        /\ feed.user = client.user) =>
        \A a \in VisibleTo(feed.user) :
            (/\ assertions[a] /= client.queried[a]
             /\ assertions[a] = feed.snapshot[a]) => a \in feed'.result
    ]_vars

====
